---- MODULE Spec2Model ----
(***************************************************************************)
(* Subscription lifecycle of app/services/subscription_service.py.         *)
(*                                                                         *)
(* Every request runs SubscriptionService in an AsyncSession of its own    *)
(* (app/database.py get_db).  A session reads rows with SELECT statements  *)
(* (each sees the rows committed so far: PostgreSQL READ COMMITTED), keeps *)
(* the loaded objects in memory, changes their attributes, and at          *)
(* db.commit() flushes one UPDATE per changed object that sets exactly the *)
(* columns whose value differs from the loaded one, WHERE id = <id>.       *)
(* Other sessions run between a session's reads and its commit (every      *)
(* `await` is a suspension point), so a call is two steps here: the step   *)
(* with its reads and in-memory changes, and the step with its commit.     *)
(* A commit can also fail: the session is then closed and its transaction  *)
(* is rolled back.  Timestamps are integers (one unit = one day).          *)
(*                                                                         *)
(* Spec is the service under concurrent requests.  SeqSpec is the service  *)
(* as one client sees it that waits for each response before its next      *)
(* request, and notes the outcome of every call in `trace`.                *)
(***************************************************************************)
EXTENDS Integers, Sequences, FiniteSets, TLC

VARIABLES
    subs,     \* table subscriptions: sequence of rows, the row's id is its index
    plans,    \* table plans: plan id -> [duration_days, is_active]
    now,      \* the clock read by datetime.utcnow()
    sess,     \* per request slot: the AsyncSession of the call in flight
    last,     \* the outcome of the call that returned last
    calls,    \* the number of service calls issued so far
    trace     \* the calls of a client that issues them one after the other:
              \* the outcome of each and the time it was made

vars == <<subs, plans, now, sess, last, calls, trace>>

(* ------------------------------ bounds -------------------------------- *)
MaxTime == 2          \* the clock stops ticking here
MaxCalls == 3         \* no further service call is issued after this many
MaxSeqCalls == 4      \* the same for the client that calls one after the other
MaxApiCalls == 3      \* the same for the requests to the routes
MaxLiveCalls == 3     \* the same for the client beside the periodic sweep

(* ------------------------------- data --------------------------------- *)
Procs == {1, 2}                   \* request slots that can be in flight together
Users == {1, 2}                   \* ids in table users (rows are never deleted)
UserIds == Users \cup {3}         \* ids a request can carry; 3 is no user
Clients == {1}                    \* the user whose service calls Spec and SeqSpec
                                  \* follow (ApiSpec follows the requests of all)
ClientIds == Clients \cup (UserIds \ Users)
PlanIds == {1, 2, 3}              \* ids in table plans
PlanIdInputs == PlanIds \cup {0}  \* ids a request can carry; 0 is no plan

\* class SubscriptionStatus
SubscriptionStatus == {"ACTIVE", "INACTIVE", "CANCELLED", "EXPIRED"}

\* the catalog at start: two plans of the same duration and a longer one
InitPlans ==
    [p \in PlanIds |->
        [duration_days |-> IF p = 3 THEN 3 ELSE 2, is_active |-> TRUE]]

Columns == {"user_id", "plan_id", "status", "start_date", "end_date", "auto_renew"}

NoRow ==
    [user_id |-> 0, plan_id |-> 0, status |-> "NONE",
     start_date |-> 0, end_date |-> 0, auto_renew |-> FALSE]

\* model_dump(exclude_unset=True) of a request body: `fields` are the keys that
\* were set; a key that was not set keeps the placeholder below.
NoData == [fields |-> {}, plan_id |-> 0, auto_renew |-> FALSE, status |-> "ACTIVE"]

\* SubscriptionCreate bodies: plan_id and auto_renew
CreateData ==
    {[fields |-> {"plan_id", "auto_renew"}, plan_id |-> pl, auto_renew |-> ar,
      status |-> "ACTIVE"] : pl \in PlanIdInputs, ar \in BOOLEAN}

\* SubscriptionUpdate bodies: every combination of plan_id and auto_renew set
\* or not set, and the bodies that set status alone
UpdateData ==
    {d \in [fields : SUBSET {"plan_id", "auto_renew"},
            plan_id : PlanIdInputs, auto_renew : BOOLEAN,
            status : {NoData.status}] :
        /\ "plan_id" \notin d.fields => d.plan_id = NoData.plan_id
        /\ "auto_renew" \notin d.fields => d.auto_renew = NoData.auto_renew}
    \cup {[NoData EXCEPT !.fields = {"status"}, !.status = st] :
             st \in SubscriptionStatus}

\* a session holds the objects it loaded: their ids, and for the one object
\* of update/cancel (the new object of create) the row as loaded (snap) and
\* the object as the call changed it (obj)
IdleSession ==
    [pc |-> "idle", op |-> "none", ids |-> {}, snap |-> NoRow, obj |-> NoRow]

NoCall == [op |-> "none", res |-> "none", count |-> 0, rows |-> {}]

\* res: "ok", or the exception the call raised ("ServerError" is the
\* SQLAlchemyError that app/main.py turns into a 500 response); count is the
\* integer expire_subscriptions returns, 0 for every other call; rows are the
\* ids of the rows a read returns, none for every other call
Returned(op, res) == [op |-> op, res |-> res, count |-> 0, rows |-> {}]

\* line 172: return count
ReturnedCount(count) == [Returned("expire", "ok") EXCEPT !.count = count]

\* the rows a read returns
ReturnedRows(op, rows) == [Returned(op, "ok") EXCEPT !.rows = rows]

Ids == DOMAIN subs

(* ------------------------------ queries -------------------------------- *)
\* mutant of ActiveOf: a cancelled row counts as well
ActiveOrCancelledOf(user_id) ==
    {i \in Ids : /\ subs[i].user_id = user_id
                 /\ subs[i].status \in {"ACTIVE", "CANCELLED"}}

\* the rows get_active_subscription_by_user's SELECT matches
ActiveOf(user_id) ==
    {i \in Ids : subs[i].user_id = user_id /\ subs[i].status = "ACTIVE"}

\* the rows get_subscription_by_user's SELECT matches
CurrentOf(user_id) ==
    {i \in Ids : /\ subs[i].user_id = user_id
                 /\ subs[i].status \in {"ACTIVE", "INACTIVE"}}

\* select(Plan).where(Plan.id == plan_id, Plan.is_active == True)
ActivePlan(plan_id) ==
    plan_id \in DOMAIN plans /\ plans[plan_id].is_active

\* mutant of Expirable: a subscription that renews is not matched
ExpirableUnlessRenewing(current_time) ==
    {i \in Ids : /\ subs[i].status = "ACTIVE"
                 /\ subs[i].end_date <= current_time
                 /\ ~subs[i].auto_renew}

\* mutant of Expirable: the status is not looked at
ExpirableAgain(current_time) ==
    {i \in Ids : subs[i].end_date <= current_time}

\* mutant of Expirable: the row that ends at current_time is not matched
ExpirableBefore(current_time) ==
    {i \in Ids : subs[i].status = "ACTIVE" /\ subs[i].end_date < current_time}

\* the rows expire_subscriptions' SELECT matches
Expirable(current_time) ==
    {i \in Ids : subs[i].status = "ACTIVE" /\ subs[i].end_date <= current_time}

\* the UPDATE a flush emits for one loaded object: the columns whose value in
\* the object differs from the value that was loaded, and no other column
Flush(row, snap, obj) ==
    [c \in Columns |-> IF obj[c] # snap[c] THEN obj[c] ELSE row[c]]

(* --------------------------- create_subscription ----------------------- *)
\* mutant of EndDate: the plan's duration counted from the epoch, not from
\* the start date
EndDateWithoutStart(start_date, plan_id) == plans[plan_id].duration_days

\* line 41: end_date = start_date + timedelta(days=plan.duration_days)
EndDate(start_date, plan_id) == start_date + plans[plan_id].duration_days

\* lines 40-50: the Subscription object that is built
NewSubscription(user_id, data) ==
    [user_id |-> user_id,
     plan_id |-> data.plan_id,
     status |-> "ACTIVE",
     start_date |-> now,
     end_date |-> EndDate(now, data.plan_id),
     auto_renew |-> data.auto_renew]

\* lines 18-50: the three checks and the object that is built
create_subscription(p, user_id, data) ==
    /\ sess[p].pc = "idle"
    /\ LET fail(res) ==
               /\ last' = Returned("create", res)
               /\ UNCHANGED <<subs, plans, now, sess>>
       IN  IF user_id \notin Users THEN fail("NotFound")
           ELSE IF ~ActivePlan(data.plan_id) THEN fail("NotFound")
           ELSE IF Cardinality(ActiveOf(user_id)) > 1 THEN fail("ServerError")
           ELSE IF ActiveOf(user_id) # {} THEN fail("Conflict")
           ELSE /\ sess' = [sess EXCEPT ![p] =
                       [pc |-> "commit", op |-> "create", ids |-> {},
                        snap |-> NoRow,
                        obj |-> NewSubscription(user_id, data)]]
                /\ UNCHANGED <<subs, plans, now, last>>

\* mutant of create_commit: the user's row is reused when there is one
create_commit_reusing(p) ==
    /\ sess[p].pc = "commit" /\ sess[p].op = "create"
    /\ LET old == {i \in Ids : subs[i].user_id = sess[p].obj.user_id}
       IN  subs' = IF old = {} THEN Append(subs, sess[p].obj)
                   ELSE [subs EXCEPT ![CHOOSE i \in old : TRUE] = sess[p].obj]
    /\ last' = Returned("create", "ok")
    /\ sess' = [sess EXCEPT ![p] = IdleSession]
    /\ UNCHANGED <<plans, now>>

\* lines 52-55: db.add, db.commit, db.refresh
create_commit(p) ==
    /\ sess[p].pc = "commit" /\ sess[p].op = "create"
    /\ subs' = Append(subs, sess[p].obj)
    /\ last' = Returned("create", "ok")
    /\ sess' = [sess EXCEPT ![p] = IdleSession]
    /\ UNCHANGED <<plans, now>>

(* --------------------------- update_subscription ---------------------- *)
\* lines 120-123: the end date is recalculated when the body sets plan_id and
\* the new plan's duration differs from the duration of the plan now bound
Recalculate(subscription, data) ==
    /\ "plan_id" \in data.fields
    /\ plans[data.plan_id].duration_days #
           plans[subscription.plan_id].duration_days

\* mutant of NewEndDate: the new plan's duration added to the old end date
AdditiveEndDate(subscription, data) ==
    subscription.end_date + plans[data.plan_id].duration_days

\* line 125: subscription.end_date = utcnow() + timedelta(days=plan.duration_days)
NewEndDate(subscription, data) == now + plans[data.plan_id].duration_days

\* mutant of ApplyUpdates: the loop skips auto_renew
ApplyUpdatesButAutoRenew(subscription, data) ==
    [c \in Columns |->
        IF c \in data.fields \ {"auto_renew"} THEN data[c] ELSE subscription[c]]

\* lines 128-129: for field, value in update_data.items(): setattr(...)
ApplyUpdates(subscription, data) ==
    [c \in Columns |->
        IF c \in data.fields THEN data[c] ELSE subscription[c]]

\* lines 104-129: the lookup, the plan check, the end date and the setattr loop
update_subscription(p, user_id, data) ==
    /\ sess[p].pc = "idle"
    /\ LET fail(res) ==
               /\ last' = Returned("update", res)
               /\ UNCHANGED <<subs, plans, now, sess>>
           found == ActiveOf(user_id)
       IN  IF Cardinality(found) > 1 THEN fail("ServerError")
           ELSE IF found = {} THEN fail("NotFound")
           ELSE IF "plan_id" \in data.fields /\ ~ActivePlan(data.plan_id)
                THEN fail("NotFound")
           ELSE LET id == CHOOSE i \in found : TRUE
                    subscription == subs[id]
                    dated == IF Recalculate(subscription, data)
                             THEN [subscription EXCEPT !.end_date =
                                      NewEndDate(subscription, data)]
                             ELSE subscription
                IN  /\ sess' = [sess EXCEPT ![p] =
                           [pc |-> "commit", op |-> "update", ids |-> {id},
                            snap |-> subscription,
                            obj |-> ApplyUpdates(dated, data)]]
                    /\ UNCHANGED <<subs, plans, now, last>>

\* lines 131-133: db.commit, db.refresh
update_commit(p) ==
    /\ sess[p].pc = "commit" /\ sess[p].op = "update"
    /\ subs' = [i \in Ids |->
                   IF i \in sess[p].ids
                   THEN Flush(subs[i], sess[p].snap, sess[p].obj) ELSE subs[i]]
    /\ last' = Returned("update", "ok")
    /\ sess' = [sess EXCEPT ![p] = IdleSession]
    /\ UNCHANGED <<plans, now>>

(* --------------------------- cancel_subscription ----------------------- *)
\* mutant of Cancelled: the status alone
CancelledKeepingAutoRenew(subscription) ==
    [subscription EXCEPT !.status = "CANCELLED"]

\* lines 142-143: status = CANCELLED, auto_renew = False
Cancelled(subscription) ==
    [subscription EXCEPT !.status = "CANCELLED", !.auto_renew = FALSE]

\* lines 138-143
cancel_subscription(p, user_id) ==
    /\ sess[p].pc = "idle"
    /\ LET fail(res) ==
               /\ last' = Returned("cancel", res)
               /\ UNCHANGED <<subs, plans, now, sess>>
           found == ActiveOf(user_id)
       IN  IF Cardinality(found) > 1 THEN fail("ServerError")
           ELSE IF found = {} THEN fail("NotFound")
           ELSE LET id == CHOOSE i \in found : TRUE
                    subscription == subs[id]
                IN  /\ sess' = [sess EXCEPT ![p] =
                           [pc |-> "commit", op |-> "cancel", ids |-> {id},
                            snap |-> subscription,
                            obj |-> Cancelled(subscription)]]
                    /\ UNCHANGED <<subs, plans, now, last>>

\* lines 145-147: db.commit, db.refresh
cancel_commit(p) ==
    /\ sess[p].pc = "commit" /\ sess[p].op = "cancel"
    /\ subs' = [i \in Ids |->
                   IF i \in sess[p].ids
                   THEN Flush(subs[i], sess[p].snap, sess[p].obj) ELSE subs[i]]
    /\ last' = Returned("cancel", "ok")
    /\ sess' = [sess EXCEPT ![p] = IdleSession]
    /\ UNCHANGED <<plans, now>>

(* --------------------------- expire_subscriptions ---------------------- *)
\* lines 152-167: the SELECT, and status = EXPIRED on every object it loaded;
\* with no object loaded (count = 0) the call returns without a commit
expire_subscriptions(p) ==
    /\ sess[p].pc = "idle"
    /\ LET expired_subscriptions == Expirable(now)
       IN  IF expired_subscriptions = {}
           THEN /\ last' = ReturnedCount(0)
                /\ UNCHANGED <<subs, plans, now, sess>>
           ELSE /\ sess' = [sess EXCEPT ![p] =
                       [IdleSession EXCEPT !.pc = "commit", !.op = "expire",
                                           !.ids = expired_subscriptions]]
                /\ UNCHANGED <<subs, plans, now, last>>

\* mutant of expire_commit: the count is returned, nothing is written
expire_commit_counting(p) ==
    /\ sess[p].pc = "commit" /\ sess[p].op = "expire"
    /\ last' = ReturnedCount(Cardinality(sess[p].ids))
    /\ sess' = [sess EXCEPT ![p] = IdleSession]
    /\ UNCHANGED <<subs, plans, now>>

\* lines 169-172: db.commit flushes status = EXPIRED for every loaded object
\* (each was loaded ACTIVE, so the column is changed in each)
expire_commit(p) ==
    /\ sess[p].pc = "commit" /\ sess[p].op = "expire"
    /\ subs' = [i \in Ids |->
                   IF i \in sess[p].ids
                   THEN [subs[i] EXCEPT !.status = "EXPIRED"] ELSE subs[i]]
    /\ last' = ReturnedCount(Cardinality(sess[p].ids))
    /\ sess' = [sess EXCEPT ![p] = IdleSession]
    /\ UNCHANGED <<plans, now>>

(* ---------------------------- a commit that fails ---------------------- *)
\* mutant of Rollback: every UPDATE is a transaction of its own, so the ones
\* flushed before the failure stay
Autocommitted(p, flushed) ==
    [i \in Ids |->
        IF i \in flushed
        THEN IF sess[p].op = "expire" THEN [subs[i] EXCEPT !.status = "EXPIRED"]
             ELSE Flush(subs[i], sess[p].snap, sess[p].obj)
        ELSE subs[i]]

\* the session is closed without a commit: the transaction db.commit() had
\* begun is rolled back, and with it the UPDATEs flushed before the failure
Rollback(p, flushed) == subs

\* db.commit() raises (the storage fails during the flush, after the UPDATEs
\* of `flushed`): the one db.commit() of the call is its only transaction, the
\* exception leaves the service and the session is closed
commit_fails(p) ==
    /\ sess[p].pc = "commit"
    /\ \E flushed \in SUBSET sess[p].ids : subs' = Rollback(p, flushed)
    /\ last' = Returned(sess[p].op, "ServerError")
    /\ sess' = [sess EXCEPT ![p] = IdleSession]
    /\ UNCHANGED <<plans, now>>

(* ------------------------------ delete_plan ---------------------------- *)
\* PlanService.delete_plan: the soft delete of a plan of the catalog
delete_plan(plan_id) ==
    /\ plan_id \in DOMAIN plans
    /\ plans[plan_id].is_active
    /\ plans' = [plans EXCEPT ![plan_id].is_active = FALSE]
    /\ UNCHANGED <<subs, now, sess, last>>

(* ------------------------------- clock --------------------------------- *)
Tick ==
    /\ now < MaxTime
    /\ now' = now + 1
    /\ UNCHANGED <<subs, plans, sess, last>>

(* ----------------------------- specification --------------------------- *)
Init ==
    /\ subs = <<>>
    /\ plans = InitPlans
    /\ now = 0
    /\ sess = [p \in Procs |-> IdleSession]
    /\ last = NoCall
    /\ calls = 0
    /\ trace = <<>>

\* a request arrives and takes the first free slot: the service call runs up
\* to its commit
FreeSlot(p) == sess[p].pc = "idle" /\ \A q \in Procs : q < p => sess[q].pc # "idle"
Issue(call) == calls < MaxCalls /\ calls' = calls + 1 /\ call /\ UNCHANGED trace

CreateBegin ==
    \E p \in Procs, u \in ClientIds, d \in CreateData : FreeSlot(p) /\ Issue(create_subscription(p, u, d))
CreateCommit == \E p \in Procs : create_commit(p) /\ UNCHANGED <<calls, trace>>
UpdateBegin ==
    \E p \in Procs, u \in Clients, d \in UpdateData : FreeSlot(p) /\ Issue(update_subscription(p, u, d))
UpdateCommit == \E p \in Procs : update_commit(p) /\ UNCHANGED <<calls, trace>>
CancelBegin == \E p \in Procs, u \in Clients : FreeSlot(p) /\ Issue(cancel_subscription(p, u))
CancelCommit == \E p \in Procs : cancel_commit(p) /\ UNCHANGED <<calls, trace>>
ExpireBegin == \E p \in Procs : FreeSlot(p) /\ Issue(expire_subscriptions(p))
ExpireCommit == \E p \in Procs : expire_commit(p) /\ UNCHANGED <<calls, trace>>
CommitFails == \E p \in Procs : commit_fails(p) /\ UNCHANGED <<calls, trace>>
DeletePlan ==
    \E pl \in PlanIds :
        calls < MaxCalls /\ calls' = calls + 1 /\ delete_plan(pl) /\ UNCHANGED trace
ClockTick == Tick /\ UNCHANGED <<calls, trace>>

Next ==
    \/ CreateBegin
    \/ CreateCommit
    \/ UpdateBegin
    \/ UpdateCommit
    \/ CancelBegin
    \/ CancelCommit
    \/ ExpireBegin
    \/ ExpireCommit
    \/ CommitFails
    \/ DeletePlan
    \/ ClockTick

Spec == Init /\ [][Next]_vars

(* ------------------- one client, one call after the other -------------- *)
\* what the client of the routes in app/api/subscriptions.py notes of a
\* call: its outcome (NoCall until the response is there) and the time of the
\* request, which is the time the service reads with datetime.utcnow()
Entry(call, at) ==
    [op |-> call.op, res |-> call.res, count |-> call.count, at |-> at]

\* the client sends a request when it has the response to the one before; a
\* call that fails its checks (or expires nothing) responds in the same step
SeqIssue(p) ==
    /\ calls < MaxSeqCalls /\ calls' = calls + 1
    /\ \A q \in Procs : sess[q].pc = "idle"
    /\ trace' = Append(trace, IF sess'[p].pc = "idle" THEN Entry(last', now)
                                                        ELSE Entry(NoCall, now))

\* the response of a call that has committed
SeqReturn ==
    /\ UNCHANGED calls
    /\ trace' = [trace EXCEPT ![Len(trace)] = Entry(last', @.at)]

SeqCreate ==
    \E p \in Procs, u \in ClientIds, d \in CreateData :
        FreeSlot(p) /\ create_subscription(p, u, d) /\ SeqIssue(p)
SeqCreateCommit == \E p \in Procs : create_commit(p) /\ SeqReturn
SeqUpdate ==
    \E p \in Procs, u \in Clients, d \in UpdateData :
        FreeSlot(p) /\ update_subscription(p, u, d) /\ SeqIssue(p)
SeqUpdateCommit == \E p \in Procs : update_commit(p) /\ SeqReturn
SeqCancel ==
    \E p \in Procs, u \in Clients :
        FreeSlot(p) /\ cancel_subscription(p, u) /\ SeqIssue(p)
SeqCancelCommit == \E p \in Procs : cancel_commit(p) /\ SeqReturn
SeqExpire == \E p \in Procs : FreeSlot(p) /\ expire_subscriptions(p) /\ SeqIssue(p)
SeqExpireCommit == \E p \in Procs : expire_commit(p) /\ SeqReturn
SeqDeletePlan ==
    \E pl \in PlanIds :
        /\ calls < MaxSeqCalls /\ calls' = calls + 1
        /\ \A q \in Procs : sess[q].pc = "idle"
        /\ delete_plan(pl)
        /\ UNCHANGED trace

SeqNext ==
    \/ SeqCreate
    \/ SeqCreateCommit
    \/ SeqUpdate
    \/ SeqUpdateCommit
    \/ SeqCancel
    \/ SeqCancelCommit
    \/ SeqExpire
    \/ SeqExpireCommit
    \/ SeqDeletePlan
    \/ ClockTick

SeqSpec == Init /\ [][SeqNext]_vars

(* ------------------------------- reads --------------------------------- *)
\* lines 68-81: scalar_one_or_none() of the rows CurrentOf matches
get_subscription_by_user(user_id) ==
    /\ last' = IF Cardinality(CurrentOf(user_id)) > 1
               THEN Returned("get", "ServerError")
               ELSE ReturnedRows("get", CurrentOf(user_id))
    /\ UNCHANGED <<subs, plans, now, sess>>

\* lines 58-65: the row with this id, if there is one
get_subscription_by_id(subscription_id) ==
    {i \in Ids : i = subscription_id}

\* mutant of Listed: the filter is dropped
ListedAll(status) == Ids

\* lines 180-186: every row, or with `if status:` the rows of that status
\* ("none" is the request without the status parameter)
Listed(status) ==
    {i \in Ids : status = "none" \/ subs[i].status = status}

\* lines 175-189
get_all_subscriptions(status) ==
    /\ last' = ReturnedRows("list", Listed(status))
    /\ UNCHANGED <<subs, plans, now, sess>>

\* app/tasks/subscription_tasks.py process_subscription_renewal: reads the row
\* and reports whether it would renew; the renewal itself is a placeholder
process_subscription_renewal(subscription_id) ==
    /\ last' = Returned("renewal",
                   IF \E i \in get_subscription_by_id(subscription_id) :
                          subs[i].auto_renew
                   THEN "True" ELSE "False")
    /\ UNCHANGED <<subs, plans, now, sess>>

(* ----------------------------- update_plan ----------------------------- *)
\* PlanUpdate bodies that set duration_days (any integer: the schema has no
\* validator) or is_active; the other fields of a plan are not modelled
PlanDurationInputs == {-1, 0, 1}

PlanData ==
    {[fields |-> {"duration_days"}, duration_days |-> n, is_active |-> TRUE] :
         n \in PlanDurationInputs}
    \cup {[fields |-> {"is_active"}, duration_days |-> 0, is_active |-> b] :
             b \in BOOLEAN}

\* PlanService.update_plan, lines 49-64, for a plan that exists
update_plan(plan_id, data) ==
    /\ plan_id \in DOMAIN plans
    /\ plans' = [plans EXCEPT ![plan_id] =
                    [c \in {"duration_days", "is_active"} |->
                        IF c \in data.fields THEN data[c] ELSE @[c]]]
    /\ UNCHANGED <<subs, now, sess, last>>

(* ------------------------------- routes -------------------------------- *)
\* UserService.create_user builds a user from email, password and name: no
\* user is stored as an administrator
Admins == {}

\* the users Depends(get_current_active_user) can yield: the users of the
\* table (none of them is an administrator: a user row has no such attribute)
Authenticated == Users

\* mutant of NotOwner: the comparison is missing
NeverNotOwner(current_user, user_id) == FALSE

\* `if user_id != current_user.id` of the routes
NotOwner(current_user, user_id) == user_id # current_user

\* raise HTTPException(status_code=status.HTTP_403_FORBIDDEN)
Forbidden(op) ==
    /\ last' = Returned(op, "Forbidden")
    /\ UNCHANGED <<subs, plans, now, sess>>

\* POST /subscriptions: the body's user_id is replaced by the caller's id
route_create_subscription(p, current_user, user_id, data) ==
    create_subscription(p, IF NotOwner(current_user, user_id)
                           THEN current_user ELSE user_id, data)

\* GET /subscriptions/{user_id}: 403, 404 when there is no row, or the row
route_get_user_subscription(current_user, user_id) ==
    IF NotOwner(current_user, user_id) THEN Forbidden("get")
    ELSE IF CurrentOf(user_id) = {}
         THEN /\ last' = Returned("get", "NotFound")
              /\ UNCHANGED <<subs, plans, now, sess>>
         ELSE get_subscription_by_user(user_id)

\* PUT /subscriptions/{user_id}
route_update_user_subscription(p, current_user, user_id, data) ==
    IF NotOwner(current_user, user_id)
    THEN sess[p].pc = "idle" /\ Forbidden("update")
    ELSE update_subscription(p, user_id, data)

\* DELETE /subscriptions/{user_id}
route_cancel_user_subscription(p, current_user, user_id) ==
    IF NotOwner(current_user, user_id)
    THEN sess[p].pc = "idle" /\ Forbidden("cancel")
    ELSE cancel_subscription(p, user_id)

\* GET /subscriptions: no condition on current_user
route_get_all_subscriptions(current_user, status_filter) ==
    get_all_subscriptions(status_filter)

\* POST /subscriptions/expire: no condition on current_user
route_expire_subscriptions(p, current_user) ==
    expire_subscriptions(p)

(* --------------------- the routes, one request at a time --------------- *)
StatusFilters == SubscriptionStatus \cup {"none"}
SubscriptionIdInputs == 1..2

ApiIssue ==
    /\ calls < MaxApiCalls /\ calls' = calls + 1
    /\ \A q \in Procs : sess[q].pc = "idle"
    /\ UNCHANGED trace

ApiCreate ==
    \E p \in Procs, cu \in Authenticated, u \in UserIds, d \in CreateData :
        FreeSlot(p) /\ route_create_subscription(p, cu, u, d) /\ ApiIssue
ApiGet ==
    \E cu \in Authenticated, u \in UserIds :
        route_get_user_subscription(cu, u) /\ ApiIssue
ApiUpdate ==
    \E p \in Procs, cu \in Authenticated, u \in UserIds, d \in UpdateData :
        FreeSlot(p) /\ route_update_user_subscription(p, cu, u, d) /\ ApiIssue
ApiCancel ==
    \E p \in Procs, cu \in Authenticated, u \in UserIds :
        FreeSlot(p) /\ route_cancel_user_subscription(p, cu, u) /\ ApiIssue
ApiList ==
    \E cu \in Authenticated, st \in StatusFilters :
        route_get_all_subscriptions(cu, st) /\ ApiIssue
ApiExpire ==
    \E p \in Procs, cu \in Authenticated :
        FreeSlot(p) /\ route_expire_subscriptions(p, cu) /\ ApiIssue
ApiUpdatePlan ==
    \E pl \in PlanIds, d \in PlanData : update_plan(pl, d) /\ ApiIssue
ApiDeletePlan == \E pl \in PlanIds : delete_plan(pl) /\ ApiIssue
RenewalTask ==
    \E id \in SubscriptionIdInputs : process_subscription_renewal(id) /\ ApiIssue

ApiNext ==
    \/ ApiCreate
    \/ CreateCommit
    \/ ApiGet
    \/ ApiUpdate
    \/ UpdateCommit
    \/ ApiCancel
    \/ CancelCommit
    \/ ApiList
    \/ ApiExpire
    \/ ExpireCommit
    \/ ApiUpdatePlan
    \/ ApiDeletePlan
    \/ RenewalTask
    \/ ClockTick

ApiSpec == Init /\ [][ApiNext]_vars

(* ------------------- the service with the periodic sweep --------------- *)
\* celery beat starts expire_subscriptions_task every hour, whatever the
\* clients do: the task has the session Sweeper to itself and is not counted
\* in the client's calls; the client's calls run in the other session
Sweeper == 2
LiveClients == Procs \ {Sweeper}

LiveIssue == calls < MaxLiveCalls /\ calls' = calls + 1 /\ UNCHANGED trace

SweepBegin == expire_subscriptions(Sweeper) /\ UNCHANGED <<calls, trace>>
SweepCommit == expire_commit(Sweeper) /\ UNCHANGED <<calls, trace>>
LiveCreate ==
    \E p \in LiveClients, u \in ClientIds, d \in CreateData :
        create_subscription(p, u, d) /\ LiveIssue
LiveCreateCommit ==
    \E p \in LiveClients : create_commit(p) /\ UNCHANGED <<calls, trace>>
LiveUpdate ==
    \E p \in LiveClients, u \in Clients, d \in UpdateData :
        update_subscription(p, u, d) /\ LiveIssue
LiveUpdateCommit ==
    \E p \in LiveClients : update_commit(p) /\ UNCHANGED <<calls, trace>>
LiveCancel ==
    \E p \in LiveClients, u \in Clients : cancel_subscription(p, u) /\ LiveIssue
LiveCancelCommit ==
    \E p \in LiveClients : cancel_commit(p) /\ UNCHANGED <<calls, trace>>

LiveNext ==
    \/ SweepBegin
    \/ SweepCommit
    \/ LiveCreate
    \/ LiveCreateCommit
    \/ LiveUpdate
    \/ LiveUpdateCommit
    \/ LiveCancel
    \/ LiveCancelCommit
    \/ ClockTick

\* the beat schedule: a sweep that can start does start, and a sweep that
\* has selected its rows does commit
LiveSpec ==
    /\ Init /\ [][LiveNext]_vars
    /\ WF_vars(SweepBegin) /\ WF_vars(SweepCommit)

(* ------------------------------- claims -------------------------------- *)
\* the call in slot p commits in this step
Commits(p, op) ==
    /\ sess[p].pc = "commit" /\ sess[p].op = op /\ sess'[p].pc = "idle"
    /\ last'.res = "ok"

Terminal == {"CANCELLED", "EXPIRED"}

\* C1: in every reachable state each user has at most one subscription row
\* with status ACTIVE.
AtMostOneActive ==
    \A u \in Users : Cardinality(ActiveOf(u)) <= 1

\* C2: of the Create calls for one user that run concurrently at most one
\* succeeds: a Create that reaches its insert when the user already has an
\* ACTIVE row (inserted by a concurrent Create after this call's check) returns
\* Conflict and inserts nothing.
ConcurrentCreateConflicts ==
    [][\A p \in Procs :
          (Commits(p, "create") /\ ActiveOf(sess[p].obj.user_id) # {})
              => (last'.res = "Conflict" /\ subs' = subs)]_vars

\* C3: a row whose status is CANCELLED or EXPIRED keeps that status in every
\* step.
TerminalIsFinal ==
    [][\A i \in Ids :
          subs[i].status \in Terminal => subs'[i].status = subs[i].status]_vars

\* C4: Cancel and ChangePlan write to a row only if it is still ACTIVE at the
\* moment of the write: a commit of either that finds its row no longer ACTIVE
\* changes none of the row's fields.
WriteOnlyIfStillActive ==
    [][\A p \in Procs :
          (Commits(p, "cancel") \/ Commits(p, "update"))
              => \A i \in sess[p].ids :
                     subs[i].status # "ACTIVE" => subs'[i] = subs[i]]_vars

\* C5: every row's status is ACTIVE, CANCELLED or EXPIRED in every reachable
\* state (no call produces INACTIVE).
OnlyLifecycleStatuses ==
    \A i \in Ids : subs[i].status \in {"ACTIVE", "CANCELLED", "EXPIRED"}

\* the update call of slot p has passed its checks in this step, for user u
\* with body d
Updating(p, u, d) == update_subscription(p, u, d) /\ sess'[p].pc = "commit"

\* C6: a successful Create(userId, planId, autoRenew) adds exactly one row: it
\* is ACTIVE, carries the given userId, planId and autoRenew, its startDate is
\* the time of the call and its endDate is startDate plus the plan's
\* durationDays; every existing row is left as it was.
CreateAddsOneActiveRow ==
    [][/\ \A p \in Procs, u \in UserIds, d \in CreateData :
              (create_subscription(p, u, d) /\ sess'[p].pc = "commit")
                  => sess'[p].obj =
                         [user_id |-> u, plan_id |-> d.plan_id,
                          status |-> "ACTIVE", start_date |-> now,
                          end_date |-> now + plans[d.plan_id].duration_days,
                          auto_renew |-> d.auto_renew]
       /\ \A p \in Procs :
              Commits(p, "create")
                  => /\ subs' = Append(subs, sess[p].obj)
                     /\ last' = Returned("create", "ok")]_vars

\* C6 witness: a Create has succeeded on a table that held a row already
CreateAfterHistory ==
    /\ last = Returned("create", "ok")
    /\ Len(subs) = 2
    /\ subs[1].status \in Terminal
    /\ subs[2].status = "ACTIVE"
    /\ subs[2].start_date > 0

\* C7: Create fails with NotFound when the user does not exist or the plan does
\* not exist or is inactive, and with Conflict when user and active plan exist
\* and the user has an ACTIVE subscription; a failing Create writes no row.
CreateFailureKinds ==
    [][\A p \in Procs, u \in UserIds, d \in CreateData :
          create_subscription(p, u, d)
              => /\ (u \notin Users \/ ~ActivePlan(d.plan_id))
                        => (last'.res = "NotFound" /\ UNCHANGED <<subs, sess>>)
                 /\ (u \in Users /\ ActivePlan(d.plan_id) /\ ActiveOf(u) # {})
                        => (last'.res = "Conflict" /\ UNCHANGED <<subs, sess>>)]_vars

EndDateRecomputedOnPlanChange ==
    [][\A p \in Procs, u \in Users, d \in UpdateData :
          (/\ Updating(p, u, d)
           /\ "plan_id" \in d.fields
           /\ d.plan_id # sess'[p].snap.plan_id)
              => sess'[p].obj.end_date = now + plans[d.plan_id].duration_days]_vars

Cancelling(p, u) == cancel_subscription(p, u) /\ sess'[p].pc = "commit"

NotFoundWithoutWrite ==
    [][/\ \A p \in Procs, u \in Users :
              (cancel_subscription(p, u) /\ ActiveOf(u) = {})
                  => (last' = Returned("cancel", "NotFound")
                      /\ UNCHANGED <<subs, sess>>)
       /\ \A p \in Procs, u \in Users, d \in UpdateData :
              (/\ update_subscription(p, u, d)
               /\ \/ ActiveOf(u) = {}
                  \/ "plan_id" \in d.fields /\ ~ActivePlan(d.plan_id))
                  => (last' = Returned("update", "NotFound")
                      /\ UNCHANGED <<subs, sess>>)]_vars

ExpireTwiceIsNoop ==
    [][\A p \in Procs :
          (/\ expire_subscriptions(p)
           /\ trace # <<>>
           /\ trace[Len(trace)].op = "expire"
           /\ trace[Len(trace)].at = now)
              => (last' = ReturnedCount(0) /\ UNCHANGED <<subs, sess>>)]_vars

\* C14 witness: two Expire calls in a row at the same time, the first has
\* expired a row and the second none
ExpiredOnceThenNone ==
    \E k \in 1..(Len(trace) - 1) :
        /\ trace[k].op = "expire" /\ trace[k].count = 1
        /\ trace[k + 1] = Entry(ReturnedCount(0), trace[k].at)
        /\ \E i \in Ids : subs[i].status = "EXPIRED"

\* C15: overlapping Expire calls count every ACTIVE -> EXPIRED transition at
\* most once: the count returned by an Expire call that commits after another
\* Expire call has returned is the number of rows its own commit moved from
\* ACTIVE to EXPIRED.
ExpireCountsOwnTransitions ==
    [][\A p \in Procs :
          (Commits(p, "expire") /\ last.op = "expire")
              => last'.count =
                     Cardinality({i \in Ids : /\ subs[i].status = "ACTIVE"
                                              /\ subs'[i].status = "EXPIRED"})]_vars

\* C16: Expire sets a row to EXPIRED only if the row is ACTIVE with
\* endDate <= the time of the sweep at the moment of the write: the commit of
\* an Expire leaves none of its rows EXPIRED with an endDate in the future.
ExpireWritesOnlyDueRows ==
    [][\A p \in Procs :
          Commits(p, "expire")
              => \A i \in sess[p].ids :
                     subs'[i].status = "EXPIRED" => subs'[i].end_date <= now]_vars

\* C17: when the storage fails during the write of an Expire sweep, the sweep
\* changes no row at all (not the rows written before the failure either) and
\* the call fails.
FailedSweepExpiresNothing ==
    [][\A p \in Procs :
          (commit_fails(p) /\ sess[p].op = "expire")
              => (subs' = subs /\ last' = Returned("expire", "ServerError"))]_vars

\* C17 witness: a sweep has failed and two rows that are due are ACTIVE
SweepFailedRowsStillActive ==
    /\ last = Returned("expire", "ServerError")
    /\ Cardinality(Expirable(now)) = 2

\* user u has a row with status ACTIVE
HasActive(u) == \E i \in Ids : subs[i].user_id = u /\ subs[i].status = "ACTIVE"

\* C18: for one client that calls one after the other: a Create for an existing
\* user on an active plan returns Conflict (and writes nothing) when the user
\* has an ACTIVE row and otherwise succeeds with a new ACTIVE row bound to the
\* plan, whatever CANCELLED or EXPIRED rows the user has; a Cancel for a user
\* with an ACTIVE row succeeds and leaves it CANCELLED with autoRenew false.
\* So Create, Create, Cancel, Create yields ok, Conflict, ok, ok: in the calls
\* noted by the client a Create that follows a successful Create never
\* succeeds and a Create that follows a successful Cancel never conflicts.
CreateAfterCancelSucceeds ==
    /\ [](\A k \in 1..(Len(trace) - 1) :
              trace[k + 1].op = "create"
                  => /\ (trace[k].op = "create" /\ trace[k].res = "ok")
                            => trace[k + 1].res \in {"Conflict", "NotFound"}
                     /\ (trace[k].op = "cancel" /\ trace[k].res = "ok")
                            => trace[k + 1].res \in {"ok", "NotFound"})
    /\ [][/\ \A p \in Procs, u \in Users, d \in CreateData :
                 (create_subscription(p, u, d) /\ ActivePlan(d.plan_id))
                     => IF HasActive(u)
                        THEN /\ last' = Returned("create", "Conflict")
                             /\ UNCHANGED <<subs, sess>>
                        ELSE /\ sess'[p].pc = "commit"
                             /\ sess'[p].obj.user_id = u
                             /\ sess'[p].obj.plan_id = d.plan_id
                             /\ sess'[p].obj.status = "ACTIVE"
          /\ \A p \in Procs :
                 Commits(p, "create")
                     => (subs' = Append(subs, sess[p].obj)
                         /\ last' = Returned("create", "ok"))
          /\ \A p \in Procs, u \in Users :
                 (cancel_subscription(p, u) /\ HasActive(u))
                     => sess'[p].pc = "commit"
          /\ \A p \in Procs :
                 Commits(p, "cancel")
                     => /\ last' = Returned("cancel", "ok")
                        /\ \A i \in sess[p].ids :
                               /\ subs'[i].status = "CANCELLED"
                               /\ ~subs'[i].auto_renew]_vars

\* C18 witness: the four calls of the scenario have returned ok, Conflict, ok,
\* ok, and the user has the cancelled row on plan 1 (Basic) and a new ACTIVE row
\* on plan 2 (Pro)
ScenarioPlayed ==
    /\ Len(trace) = 4
    /\ [k \in 1..4 |-> <<trace[k].op, trace[k].res>>] =
           << <<"create", "ok">>, <<"create", "Conflict">>,
              <<"cancel", "ok">>, <<"create", "ok">> >>
    /\ Len(subs) = 2
    /\ subs[1].user_id = subs[2].user_id
    /\ subs[1].plan_id = 1 /\ subs[1].status = "CANCELLED" /\ ~subs[1].auto_renew
    /\ subs[2].plan_id = 2 /\ subs[2].status = "ACTIVE" /\ subs[2].auto_renew

\* C19: no step removes a subscription row or changes a row's id or userId; a
\* row is added only by the commit of a Create, one row per commit, and that
\* commit leaves every existing row (the user's CANCELLED or EXPIRED rows
\* included) as it was.
RowsAreKept ==
    [][/\ Len(subs') >= Len(subs)
       /\ \A i \in Ids : subs'[i].user_id = subs[i].user_id
       /\ Len(subs') # Len(subs)
              => (Len(subs') = Len(subs) + 1 /\ \E p \in Procs : Commits(p, "create"))
       /\ \A p \in Procs :
              Commits(p, "create") => \A i \in Ids : subs'[i] = subs[i]]_vars

\* C19 witness: the user's expired row is in the table next to the row of a
\* Create that succeeded after it ended
ExpiredRowKeptAfterCreate ==
    /\ last = Returned("create", "ok")
    /\ Len(subs) = 2
    /\ subs[1].user_id = subs[2].user_id
    /\ subs[1].status = "EXPIRED"
    /\ subs[2].status = "ACTIVE"
    /\ subs[2].start_date >= subs[1].end_date

\* C20: the plan a Create or ChangePlan binds is active at the moment the
\* binding takes effect: when the commit of a Create, or of an update that
\* changes plan_id, writes the row, the plan it writes is active.
BoundPlanIsActiveAtCommit ==
    [][\A p \in Procs :
          /\ Commits(p, "create") => ActivePlan(sess[p].obj.plan_id)
          /\ (Commits(p, "update") /\ sess[p].obj.plan_id # sess[p].snap.plan_id)
                 => ActivePlan(sess[p].obj.plan_id)]_vars

\* the failure kinds of the error taxonomy
FailureKinds == {"NotFound", "Conflict", "InvalidState"}

\* C22: a call of Create, ChangePlan or Cancel that does not succeed returns
\* NotFound, Conflict or InvalidState in every reachable state: a call that
\* returns from its checks (having opened no commit) returns one of the three.
SpecificFailureKinds ==
    [][\A p \in Procs :
          /\ \A u \in UserIds, d \in CreateData :
                 (create_subscription(p, u, d) /\ sess' = sess)
                     => last'.res \in FailureKinds
          /\ \A u \in Users, d \in UpdateData :
                 (update_subscription(p, u, d) /\ sess' = sess)
                     => last'.res \in FailureKinds
          /\ \A u \in Users :
                 (cancel_subscription(p, u) /\ sess' = sess)
                     => last'.res \in FailureKinds]_vars

\* C28: autoRenew has no effect on expiration: an Expire call selects every
\* ACTIVE row whose endDate has passed, also the rows with autoRenew true, and
\* its commit sets their status to EXPIRED and leaves their autoRenew, planId,
\* startDate and endDate as they are.
ExpireIgnoresAutoRenew ==
    [][/\ \A p \in Procs :
              expire_subscriptions(p)
                  => \A i \in Ids :
                         (/\ subs[i].status = "ACTIVE"
                          /\ subs[i].end_date <= now
                          /\ subs[i].auto_renew)
                             => (sess'[p].pc = "commit" /\ i \in sess'[p].ids)
       /\ \A p \in Procs :
              Commits(p, "expire")
                  => \A i \in sess[p].ids :
                         /\ subs'[i].status = "EXPIRED"
                         /\ \A c \in {"auto_renew", "plan_id", "start_date", "end_date"} :
                                subs'[i][c] = subs[i][c]]_vars

\* C28 witness: a sweep has expired a row that has auto_renew = True, whose
\* end date is still the one its start date and plan give
ExpiredWhileRenewing ==
    /\ last = ReturnedCount(1)
    /\ \E i \in Ids :
           /\ subs[i].status = "EXPIRED"
           /\ subs[i].auto_renew
           /\ subs[i].end_date <= now
           /\ subs[i].end_date = EndDate(subs[i].start_date, subs[i].plan_id)

\* C27: Get(userId) never fails: in every reachable state at most one row of
\* a user matches the lookup of get_subscription_by_user (status ACTIVE or
\* INACTIVE), so its scalar_one_or_none() has at most one row to return.
AtMostOneCurrent ==
    \A u \in Users : Cardinality(CurrentOf(u)) <= 1

\* C21: every subscription row ends after it starts (end_date > start_date),
\* whatever plans the plan routes have stored.
EndAfterStart == \A i \in Ids : subs[i].end_date > subs[i].start_date

\* C23: the reads (the subscription of a user, a subscription by id, the
\* listing) change no row, no plan and no session; the listing with a status
\* filter returns exactly the rows of that status, and without one every row.
ReadsChangeNothing ==
    [][/\ \A cu \in Authenticated, u \in UserIds :
              (route_get_user_subscription(cu, u) /\ ApiIssue)
                  => /\ subs' = subs /\ plans' = plans /\ sess' = sess
                     /\ last'.res = "ok" =>
                            /\ last'.rows # {}
                            /\ \A i \in last'.rows :
                                   /\ subs'[i].user_id = u
                                   /\ subs'[i].status \in {"ACTIVE", "INACTIVE"}
       /\ \A id \in SubscriptionIdInputs :
              (process_subscription_renewal(id) /\ ApiIssue)
                  => subs' = subs /\ plans' = plans /\ sess' = sess
       /\ \A cu \in Authenticated, st \in StatusFilters :
              (route_get_all_subscriptions(cu, st) /\ ApiIssue)
                  => /\ subs' = subs /\ plans' = plans /\ sess' = sess
                     /\ last'.res = "ok"
                     /\ last'.rows =
                            IF st = "none" THEN DOMAIN subs'
                            ELSE {i \in DOMAIN subs' : subs'[i].status = st}]_vars

\* a listing whose filter left out a row that is stored
ListingLeftARowOut ==
    /\ last.op = "list" /\ last.res = "ok"
    /\ Ids # {} /\ last.rows # Ids
    /\ \A q \in Procs : sess[q].pc = "idle"

AdminOnlyListAndExpire ==
    [][\A p \in Procs, cu \in Authenticated \ Admins :
           /\ \A st \in StatusFilters :
                  (route_get_all_subscriptions(cu, st) /\ ApiIssue)
                      => /\ last'.res = "Forbidden"
                         /\ \A i \in last'.rows : subs[i].user_id = cu
           /\ (route_expire_subscriptions(p, cu) /\ ApiIssue)
                  => last'.res = "Forbidden" /\ sess' = sess
           /\ Commits(p, "expire") => subs' = subs]_vars

\* C26: with the periodic sweep scheduled fairly, a row that is ACTIVE with
\* its end date reached eventually is no longer ACTIVE, or has its end date
\* moved into the future by a plan change (the client's calls are finitely
\* many, so it cannot keep doing that).
OverdueEventuallyLeavesActive ==
    \A i \in 1..MaxLiveCalls :
        (i \in Ids /\ subs[i].status = "ACTIVE" /\ subs[i].end_date <= now)
            ~> (i \in Ids /\ (subs[i].status # "ACTIVE" \/ subs[i].end_date > now))

\* the sweep has transitioned an overdue row and is idle again
OverdueRowSwept ==
    /\ sess[Sweeper].pc = "idle"
    /\ last.op = "expire" /\ last.count >= 1
    /\ \E i \in Ids : subs[i].status = "EXPIRED" /\ subs[i].end_date <= now

====
